---- MODULE Spec2Model ----
(***************************************************************************)
(* Model of the VHDL back end of moore: the registration of lazy compiler  *)
(* passes (src/vhdl/make_ctx.rs) and the LLHD code generation              *)
(* (src/vhdl/codegen.rs).                                                  *)
(*                                                                         *)
(* A node id is modelled as a record that carries the facts the memoized   *)
(* queries of the score board return for it (hir, ty, const_value): a      *)
(* query is a function of the id, so asking twice gives the same answer.   *)
(* A Rust Result is a record [tag, val] with tag "Ok" or "Err"; a panic    *)
(* (panic!, unreachable!, unimplemented!) is the third outcome "Panic",    *)
(* after which the program takes no further step.                          *)
(***************************************************************************)
EXTENDS Integers, Sequences, FiniteSets, TLC

VARIABLES
    lazy,   \* the lazy tables: kind -> node id -> LazyNode
    ctx,    \* the llhd::Entity being generated into: [name, insts]
    llmod,  \* the processes of the llhd::Module, in order of their handles
    last    \* the most recent call: [op, arg, ret]

vars == <<lazy, ctx, llmod, last>>

----------------------------------------------------------------------------
(* Bounds of the model *)

MaxBound == 7        \* integer range bounds are drawn from -2..MaxBound
MaxLits == 3         \* enum declarations have 1..MaxLits literals
NumIds == 2          \* node ids of the lazy tables
NumCallbacks == 2    \* distinct callbacks that can be registered
MaxInsts == 2        \* calls of codegen modelled on one entity

----------------------------------------------------------------------------
(* Outcomes of a call *)

Ok(v) == [tag |-> "Ok", val |-> v]

Err(e) == [tag |-> "Err", val |-> e]

Panic(m) == [tag |-> "Panic", val |-> m]

Unit == "()"

----------------------------------------------------------------------------
(* Semantic types (ty::Ty) and constants (konst::Const) as codegen.rs      *)
(* matches on them                                                         *)

TyNull == [tag |-> "Null"]

TyUnboundedInt == [tag |-> "UnboundedInt"]

TyInt(l, r, d) == [tag |-> "Int", left_bound |-> l, right_bound |-> r, dir |-> d]

TyEnum(decl) == [tag |-> "Enum", decl |-> decl]

\* A named type carries what resolving its type mark yields.
TyNamed(res) == [tag |-> "Named", res |-> res]

ConstNull == [tag |-> "Null"]

ConstInt(ty, v) == [tag |-> "Int", ty |-> ty, value |-> v]

ConstEnum(decl, k) == [tag |-> "Enum", decl |-> decl, index |-> k]

ConstFloat == [tag |-> "Float"]

ConstIntRange == [tag |-> "IntRange"]

ConstFloatRange == [tag |-> "FloatRange"]

----------------------------------------------------------------------------
(* LLHD values built by the code generator *)

void_ty == [ty |-> "void"]

int_ty(w) == [ty |-> "int", width |-> w]

enum_ty(n) == [ty |-> "enum", size |-> n]

entity_ty(ins, outs) == [ty |-> "entity", ins |-> ins, outs |-> outs]

const_int(w, v) == [kind |-> "const_int", width |-> w, value |-> v]

\* The width codegen.rs gives every integer constant.
ConstIntWidth == 999

----------------------------------------------------------------------------
(* Arithmetic on BigInt as map_type uses it *)

is_negative(n) == n < 0

\* BigInt::bits: the number of bits of the magnitude, 0 for 0.
RECURSIVE BitsOfMagnitude(_)
BitsOfMagnitude(m) == IF m = 0 THEN 0 ELSE 1 + BitsOfMagnitude(m \div 2)

bits(n) == BitsOfMagnitude(IF n < 0 THEN -n ELSE n)

----------------------------------------------------------------------------
(* Queries of the score board, which answer from the facts of the id *)

hir(id) == IF id.hir_ok THEN Ok(id.hir) ELSE Err("hir")

existing_hir(id) == IF id.hir_ok THEN Ok(id.hir) ELSE Err("existing_hir")

ty(id) == id.ty

const_value(id) == id.konst

deref_named_type(t) == IF t.tag = "Named" THEN t.res ELSE Ok(t)

\* The default value of a type: the lowest value of a range, the first
\* literal of an enumeration.
default_value_for_type(t) ==
    CASE t.tag = "Null" -> Ok(ConstNull)
      [] t.tag = "Int" ->
            Ok(ConstInt(t, IF t.dir = "To" THEN t.left_bound ELSE t.right_bound))
      [] t.tag = "Enum" -> Ok(ConstEnum(t.decl, 0))
      [] OTHER -> Err("default_value_for_type")

----------------------------------------------------------------------------
(* ScoreContext::map_type and ScoreContext::map_const *)

\* map_type with the direction of the range ignored.
map_type_no_dir(t0) ==
    LET d == deref_named_type(t0) IN
    IF d.tag # "Ok" THEN d
    ELSE LET t == d.val IN
         CASE t.tag = "Named" -> Panic("unreachable")
           [] t.tag = "Null" -> Ok(void_ty)
           [] t.tag = "Int" ->
                LET diff == t.right_bound - t.left_bound IN
                IF is_negative(diff) THEN Ok(void_ty) ELSE Ok(int_ty(bits(diff)))
           [] t.tag = "Enum" ->
                LET h == hir(t.decl) IN
                IF h.tag # "Ok" THEN h
                ELSE IF h.val.data = "Enum" THEN Ok(enum_ty(Len(h.val.lits)))
                ELSE Panic("unreachable")
           [] t.tag = "UnboundedInt" -> Panic("unreachable")

map_type(t0) ==
    LET d == deref_named_type(t0) IN
    IF d.tag # "Ok" THEN d
    ELSE LET t == d.val IN
         CASE t.tag = "Named" -> Panic("unreachable")
           [] t.tag = "Null" -> Ok(void_ty)
           [] t.tag = "Int" ->
                LET diff == IF t.dir = "To"
                            THEN t.right_bound - t.left_bound
                            ELSE t.left_bound - t.right_bound IN
                IF is_negative(diff) THEN Ok(void_ty) ELSE Ok(int_ty(bits(diff)))
           [] t.tag = "Enum" ->
                LET h == hir(t.decl) IN
                IF h.tag # "Ok" THEN h
                ELSE IF h.val.data = "Enum" THEN Ok(enum_ty(Len(h.val.lits)))
                ELSE Panic("unreachable")
           [] t.tag = "UnboundedInt" -> Panic("unreachable")

map_const(konst) ==
    CASE konst.tag = "Null" -> Ok(const_int(0, 0))
      [] konst.tag = "Int" -> Ok(const_int(ConstIntWidth, konst.value))
      [] konst.tag = "Enum" ->
            LET h == hir(konst.decl) IN
            IF h.tag # "Ok" THEN h
            ELSE IF h.val.data = "Enum"
                 THEN Ok(const_int(Len(h.val.lits), konst.index))
                 ELSE Panic("unreachable")
      [] konst.tag = "Float" -> Panic("cannot map float constant")
      [] konst.tag \in {"IntRange", "FloatRange"} -> Panic("cannot map range constant")

----------------------------------------------------------------------------
(* The inputs the model draws from *)

Bounds == -2..MaxBound

Dirs == {"To", "Downto"}

IntTys == {TyInt(l, r, d) : l \in Bounds, r \in Bounds, d \in Dirs}

\* Type declarations: an enumeration of n literals, a declaration whose
\* lowering fails, and a declaration that is not an enumeration.
EnumDecl(n) == [hir_ok |-> TRUE, hir |-> [data |-> "Enum", lits |-> [i \in 1..n |-> i]]]

FailingDecl == [hir_ok |-> FALSE, hir |-> [data |-> "None", lits |-> <<>>]]

OtherDecl == [hir_ok |-> TRUE, hir |-> [data |-> "Other", lits |-> <<>>]]

EnumDecls == {EnumDecl(n) : n \in 1..MaxLits}

TypeDecls == EnumDecls \cup {FailingDecl, OtherDecl}

ConcreteTys == {TyNull, TyUnboundedInt} \cup IntTys \cup {TyEnum(d) : d \in TypeDecls}

NamedTys == {TyNamed(Err("ty")), TyNamed(Ok(TyNull)), TyNamed(Ok(TyUnboundedInt))}
            \cup {TyNamed(Ok(TyEnum(d))) : d \in EnumDecls}
            \cup {TyNamed(Ok(TyInt(0, r, "To"))) : r \in Bounds}

Tys == ConcreteTys \cup NamedTys

InRange(v, t) ==
    IF t.dir = "To" THEN t.left_bound <= v /\ v <= t.right_bound
    ELSE t.right_bound <= v /\ v <= t.left_bound

\* An integer constant has a value of its own type; an enum constant has any
\* index a usize can hold, in the declaration's range or not.
IntConsts == {ConstInt(t, v) : <<t, v>> \in {p \in IntTys \X Bounds : InRange(p[2], p[1])}}

EnumConsts == {ConstEnum(d, k) : d \in TypeDecls, k \in 0..MaxLits}

Consts == {ConstNull, ConstFloat, ConstIntRange, ConstFloatRange}
          \cup IntConsts \cup EnumConsts

Kinds == {"hir", "typeck", "typeval"}

Ids == 1..NumIds

Callbacks == 1..NumCallbacks

Absent == [state |-> "Absent", f |-> 0]

Pending(f) == [state |-> "Pending", f |-> f]

Done(r) == [state |-> "Done", f |-> r]

EntityNames == {"top", "blk"}

----------------------------------------------------------------------------
(* Initial state: empty lazy tables, an empty entity, an empty module *)

Init ==
    /\ lazy = [k \in Kinds |-> [i \in Ids |-> Absent]]
    /\ \E n \in EntityNames : ctx = [name |-> n, insts |-> <<>>]
    /\ llmod = <<>>
    /\ last = [op |-> "none", arg |-> Unit, ret |-> Ok(Unit)]

Running == last.ret.tag # "Panic"

----------------------------------------------------------------------------
(* The mappers, called on their own *)

MapType ==
    /\ Running
    /\ \E t \in Tys : last' = [op |-> "map_type", arg |-> t, ret |-> map_type(t)]
    /\ UNCHANGED <<lazy, ctx, llmod>>

MapConst ==
    /\ Running
    /\ \E k \in Consts : last' = [op |-> "map_const", arg |-> k, ret |-> map_const(k)]
    /\ UNCHANGED <<lazy, ctx, llmod>>

NextMap == MapType \/ MapConst

SpecMap == Init /\ [][NextMap]_vars

----------------------------------------------------------------------------
(* MakeContext: scheduling the callbacks of a node, and the demand that    *)
(* runs them                                                               *)

\* NodeStorage::set and HashMap::insert: the entry of id becomes node,
\* whatever it was.
set(table, id, node) == [table EXCEPT ![id] = node]

\* What a callback computes when it is run.
run_callback(f) == f

lower_to_hir ==
    /\ Running
    /\ \E id \in Ids, f \in Callbacks :
          /\ lazy' = [lazy EXCEPT !["hir"] = set(lazy["hir"], id, Pending(f))]
          /\ last' = [op |-> "lower_to_hir", arg |-> [kind |-> "hir", id |-> id],
                      ret |-> Ok(Unit)]
    /\ UNCHANGED <<ctx, llmod>>

typeck ==
    /\ Running
    /\ \E id \in Ids, f \in Callbacks :
          /\ lazy' = [lazy EXCEPT !["typeck"] = set(lazy["typeck"], id, Pending(f))]
          /\ last' = [op |-> "typeck", arg |-> [kind |-> "typeck", id |-> id],
                      ret |-> Ok(Unit)]
    /\ UNCHANGED <<ctx, llmod>>

typeval ==
    /\ Running
    /\ \E id \in Ids, f \in Callbacks :
          /\ lazy' = [lazy EXCEPT !["typeval"] = set(lazy["typeval"], id, Pending(f))]
          /\ last' = [op |-> "typeval", arg |-> [kind |-> "typeval", id |-> id],
                      ret |-> Ok(Unit)]
    /\ UNCHANGED <<ctx, llmod>>

\* A demand resolves a pending entry by running its callback once and keeps
\* the outcome as Done; a later demand returns the kept outcome.
demand ==
    /\ Running
    /\ \E k \in Kinds, id \in Ids :
          LET node == lazy[k][id] IN
          CASE node.state = "Absent" ->
                 /\ last' = [op |-> "demand", arg |-> [kind |-> k, id |-> id],
                             ret |-> Err("no entry")]
                 /\ UNCHANGED lazy
            [] node.state = "Pending" ->
                 /\ lazy' = [lazy EXCEPT ![k] = set(lazy[k], id, Done(run_callback(node.f)))]
                 /\ last' = [op |-> "demand", arg |-> [kind |-> k, id |-> id],
                             ret |-> Ok(run_callback(node.f))]
            [] node.state = "Done" ->
                 /\ last' = [op |-> "demand", arg |-> [kind |-> k, id |-> id],
                             ret |-> Ok(node.f)]
                 /\ UNCHANGED lazy
    /\ UNCHANGED <<ctx, llmod>>

NextLazy == lower_to_hir \/ typeck \/ typeval \/ demand

SpecLazy == Init /\ [][NextLazy]_vars

----------------------------------------------------------------------------
(* Code generation into an entity *)

None == [some |-> FALSE]

Some(x) == [some |-> TRUE, val |-> x]

\* llhd::Inst::new with a SignalInst and with an InstanceInst
SignalInst(name, t, init) == [name |-> name, kind |-> "SignalInst", ty |-> t, init |-> init]

InstanceInst(name, t, target, ins, outs) ==
    [name |-> name, kind |-> "InstanceInst", ty |-> t, target |-> target,
     ins |-> ins, outs |-> outs]

\* llhd::Entity::add_inst at InstPosition::End
add_inst(c, inst) == [c EXCEPT !.insts = Append(c.insts, inst)]

\* llhd::Process::new
Process(name, t) == [name |-> name, ty |-> t]

\* llhd::Module::add_process: the module keeps the process and returns the
\* handle that refers to it, here its position.
add_process(m, prok) == [llmod |-> Append(m, prok), ref |-> Len(m) + 1]

\* What a codegen call leaves behind: its result, the entity, the module.
Outcome(r, c, m) == [ret |-> r, ctx |-> c, llmod |-> m]

unimplemented(c, m) == Outcome(Panic("not yet implemented"), c, m)

codegen_SignalDeclRef(id, c, m) ==
    LET h == existing_hir(id) IN
    IF h.tag # "Ok" THEN Outcome(h, c, m) ELSE
    LET t == ty(id) IN
    IF t.tag # "Ok" THEN Outcome(t, c, m) ELSE
    LET init == IF h.val.init.some
                THEN const_value(h.val.init.val)
                ELSE default_value_for_type(t.val) IN
    IF init.tag # "Ok" THEN Outcome(init, c, m) ELSE
    LET mt == map_type(t.val) IN
    IF mt.tag # "Ok" THEN Outcome(mt, c, m) ELSE
    LET mc == map_const(init.val) IN
    IF mc.tag # "Ok" THEN Outcome(mc, c, m) ELSE
    Outcome(Ok(Unit),
            add_inst(c, SignalInst(Some(h.val.name), mt.val, Some(mc.val))),
            m)

codegen_ConstDeclRef(id, c, m) == unimplemented(c, m)

codegen_SharedVarDeclRef(id, c, m) == unimplemented(c, m)

codegen_FileDeclRef(id, c, m) == unimplemented(c, m)

codegen_DeclInBlockRef(id, c, m) ==
    CASE id.node = "Pkg" -> Outcome(Ok(Unit), c, m)
      [] id.node = "PkgInst" -> Outcome(Ok(Unit), c, m)
      [] id.node = "Type" -> Outcome(Ok(Unit), c, m)
      [] id.node = "Subtype" -> Outcome(Ok(Unit), c, m)
      [] id.node = "Const" -> codegen_ConstDeclRef(id, c, m)
      [] id.node = "Signal" -> codegen_SignalDeclRef(id, c, m)
      [] id.node = "SharedVar" -> codegen_SharedVarDeclRef(id, c, m)
      [] id.node = "File" -> codegen_FileDeclRef(id, c, m)

\* The process lowering with the label left out of the process name.
codegen_ProcessStmtRef_unlabeled(id, c, m) ==
    LET h == hir(id) IN
    IF h.tag # "Ok" THEN Outcome(h, c, m) ELSE
    LET name == c.name \o "_proc"
        t == entity_ty(<<>>, <<>>)
        prok == Process(name, t)
        added == add_process(m, prok)
    IN  Outcome(Ok(Unit),
                add_inst(c, InstanceInst(h.val.label, t, added.ref, <<>>, <<>>)),
                added.llmod)

codegen_ProcessStmtRef(id, c, m) ==
    LET h == hir(id) IN
    IF h.tag # "Ok" THEN Outcome(h, c, m) ELSE
    LET name == IF h.val.label.some
                THEN c.name \o "_" \o h.val.label.val
                ELSE c.name \o "_proc"
        t == entity_ty(<<>>, <<>>)
        prok == Process(name, t)
        added == add_process(m, prok)
    IN  Outcome(Ok(Unit),
                add_inst(c, InstanceInst(h.val.label, t, added.ref, <<>>, <<>>)),
                added.llmod)

codegen_BlockStmtRef(id, c, m) == unimplemented(c, m)

codegen_ConcProcCallStmtRef(id, c, m) == unimplemented(c, m)

codegen_ConcAssertStmtRef(id, c, m) == unimplemented(c, m)

codegen_ConcSigAssignStmtRef(id, c, m) == unimplemented(c, m)

codegen_CompInstStmtRef(id, c, m) == unimplemented(c, m)

codegen_ForGenStmtRef(id, c, m) == unimplemented(c, m)

codegen_IfGenStmtRef(id, c, m) == unimplemented(c, m)

codegen_CaseGenStmtRef(id, c, m) == unimplemented(c, m)

codegen_ConcStmtRef(id, c, m) ==
    CASE id.node = "Block" -> codegen_BlockStmtRef(id, c, m)
      [] id.node = "Process" -> codegen_ProcessStmtRef(id, c, m)
      [] id.node = "ConcProcCall" -> codegen_ConcProcCallStmtRef(id, c, m)
      [] id.node = "ConcAssert" -> codegen_ConcAssertStmtRef(id, c, m)
      [] id.node = "ConcSigAssign" -> codegen_ConcSigAssignStmtRef(id, c, m)
      [] id.node = "CompInst" -> codegen_CompInstStmtRef(id, c, m)
      [] id.node = "ForGen" -> codegen_ForGenStmtRef(id, c, m)
      [] id.node = "IfGen" -> codegen_IfGenStmtRef(id, c, m)
      [] id.node = "CaseGen" -> codegen_CaseGenStmtRef(id, c, m)

\* The declarations and statements of the design being compiled.
SignalNames == {"a", "b"}

\* The type check lets no unbounded integer through to a signal's type.
SignalTys == {Ok(TyInt(0, 3, "To")), Ok(TyEnum(EnumDecl(2))), Ok(TyEnum(FailingDecl)),
              Err("ty")}

InitExprs == {[konst |-> r] : r \in {Ok(ConstInt(TyInt(0, 3, "To"), 1)),
                                     Ok(ConstEnum(EnumDecl(2), 1)),
                                     Ok(ConstFloat),
                                     Err("const_value")}}

SignalDecls ==
    {[node |-> "Signal", hir_ok |-> ok, hir |-> [name |-> n, init |-> i], ty |-> t] :
        ok \in BOOLEAN, n \in SignalNames,
        i \in {None} \cup {Some(e) : e \in InitExprs}, t \in SignalTys}

OtherDeclKinds == {"Pkg", "PkgInst", "Type", "Subtype", "Const", "SharedVar", "File"}

DeclInBlockRefs == SignalDecls \cup {[node |-> k] : k \in OtherDeclKinds}

ProcessLabels == {None, Some("p1"), Some("p2")}

ProcessStmts ==
    {[node |-> "Process", hir_ok |-> ok, hir |-> [label |-> l]] :
        ok \in BOOLEAN, l \in ProcessLabels}

OtherStmtKinds == {"Block", "ConcProcCall", "ConcAssert", "ConcSigAssign", "CompInst",
                   "ForGen", "IfGen", "CaseGen"}

ConcStmtRefs == ProcessStmts \cup {[node |-> k] : k \in OtherStmtKinds}

\* The driver lowers one declaration of the entity.
CodegenDecl ==
    /\ Running
    /\ Len(ctx.insts) < MaxInsts
    /\ \E id \in DeclInBlockRefs :
          LET out == codegen_DeclInBlockRef(id, ctx, llmod) IN
          /\ ctx' = out.ctx
          /\ llmod' = out.llmod
          /\ last' = [op |-> "codegen_decl", arg |-> id, ret |-> out.ret]
    /\ UNCHANGED lazy

\* The driver lowers one concurrent statement of the entity.
CodegenConcStmt ==
    /\ Running
    /\ Len(ctx.insts) < MaxInsts
    /\ \E id \in ConcStmtRefs :
          LET out == codegen_ConcStmtRef(id, ctx, llmod) IN
          /\ ctx' = out.ctx
          /\ llmod' = out.llmod
          /\ last' = [op |-> "codegen_stmt", arg |-> id, ret |-> out.ret]
    /\ UNCHANGED lazy

NextGen == CodegenDecl \/ CodegenConcStmt

SpecGen == Init /\ [][NextGen]_vars

----------------------------------------------------------------------------
(* Properties of the mappers, under SpecMap *)

\* The difference of the bounds of a range in its direction.
RangeDiff(t) ==
    IF t.dir = "To" THEN t.right_bound - t.left_bound
    ELSE t.left_bound - t.right_bound

\* ceil(log2(m)) for m >= 1: the least k with 2^k >= m.
CeilLog2(m) == CHOOSE k \in 0..m : 2^k >= m /\ \A j \in 0..(k - 1) : 2^j < m

\* The call just made was map_type on a type that resolves to an integer range.
MapTypeOfInt ==
    /\ last.op = "map_type"
    /\ deref_named_type(last.arg).tag = "Ok"
    /\ deref_named_type(last.arg).val.tag = "Int"

\* C4: map_const of an integer constant returns a literal whose width is the
\* width map_type gives the constant's own integer type.
C4_IntConstWidthIsTypeWidth ==
    (last.op = "map_const" /\ last.arg.tag = "Int") =>
        /\ last.ret.tag = "Ok"
        /\ map_type(last.arg.ty).tag = "Ok"
        /\ map_type(last.arg.ty).val = int_ty(last.ret.val.width)

\* C5 as stated: map_type of an integer range returns void when diff is
\* negative and otherwise an integer type of width ceil(log2(diff+1))+1.
C5_WidthIsCeilLog2PlusOne ==
    MapTypeOfInt =>
        LET diff == RangeDiff(deref_named_type(last.arg).val) IN
        IF diff < 0 THEN last.ret = Ok(void_ty)
        ELSE last.ret = Ok(int_ty(CeilLog2(diff + 1) + 1))

\* C5 as amended: map_type of an integer range returns void when diff is
\* negative, never panics, and otherwise returns an integer type of width
\* ceil(log2(diff+1)), the bit length of diff (0 for diff = 0).
C5_WidthIsCeilLog2 ==
    MapTypeOfInt =>
        LET diff == RangeDiff(deref_named_type(last.arg).val) IN
        IF diff < 0 THEN last.ret = Ok(void_ty)
        ELSE last.ret = Ok(int_ty(CeilLog2(diff + 1)))

\* map_type has been called on the range 7 downto 0 and returned a 3 bit integer.
C5_Witness ==
    /\ last.op = "map_type"
    /\ last.arg = TyInt(7, 0, "Downto")
    /\ last.ret = Ok(int_ty(3))

\* C6: map_const of a Float, IntRange or FloatRange constant returns the
\* error UnsupportedConstant as a value; it neither returns a literal nor
\* ends the program.
C6_UnsupportedConstIsAnError ==
    (last.op = "map_const" /\ last.arg.tag \in {"Float", "IntRange", "FloatRange"}) =>
        last.ret = Err("UnsupportedConstant")

\* C10: for an enum declaration of N literals map_type yields an enum type of
\* size N; map_const of an enum constant of index k < N yields the literal of
\* value k and width N, and an index k >= N is reported and yields no literal.
C10_EnumMapping ==
    (last.op = "map_const" /\ last.arg.tag = "Enum" /\ last.arg.decl \in EnumDecls) =>
        LET N == Len(last.arg.decl.hir.lits) IN
        /\ map_type(TyEnum(last.arg.decl)) = Ok(enum_ty(N))
        /\ IF last.arg.index < N
           THEN last.ret = Ok(const_int(N, last.arg.index))
           ELSE last.ret.tag = "Err"

----------------------------------------------------------------------------
(* Properties of the lazy tables, under SpecLazy *)

Registrations == {"lower_to_hir", "typeck", "typeval"}

\* C1: registering a callback for an (id, kind) pair that already has an
\* entry is an error: the registration is reported and the entry is left as
\* it was, for every id and every kind.
C1_SecondRegistrationIsRejected ==
    [][\A k \in Kinds, id \in Ids :
          (/\ last'.op \in Registrations
           /\ last'.arg = [kind |-> k, id |-> id]
           /\ lazy[k][id] # Absent)
          => (lazy'[k][id] = lazy[k][id] /\ last'.ret.tag = "Err")]_vars

\* C2: an entry that is Done stays Done with the same result, whatever
\* register or demand operation comes next.
C2_DoneIsStable ==
    [][\A k \in Kinds, id \in Ids :
          lazy[k][id].state = "Done" => lazy'[k][id] = lazy[k][id]]_vars

----------------------------------------------------------------------------
(* Properties of the code generation, under SpecGen *)

RECURSIVE CountSignalInsts(_, _)
\* The number of signal instructions of the given name in a sequence.
CountSignalInsts(insts, name) ==
    IF insts = <<>> THEN 0
    ELSE (IF Head(insts).kind = "SignalInst" /\ Head(insts).name = Some(name)
          THEN 1 ELSE 0) + CountSignalInsts(Tail(insts), name)

\* C3: lowering a signal declaration that has just been lowered into the
\* entity adds no second signal instruction for it.
C3_SecondLoweringAddsNothing ==
    [][(/\ last.op = "codegen_decl"
        /\ last.ret = Ok(Unit)
        /\ last.arg.node = "Signal"
        /\ last'.op = "codegen_decl"
        /\ last'.arg = last.arg)
       => CountSignalInsts(ctx'.insts, last.arg.hir.name)
            = CountSignalInsts(ctx.insts, last.arg.hir.name)]_vars

OutOfScopeKinds ==
    {"Block", "ConcProcCall", "ConcAssert", "ConcSigAssign", "CompInst",
     "ForGen", "IfGen", "CaseGen", "Const", "SharedVar", "File"}

\* C7: lowering an out-of-scope kind returns an Unsupported error tagged with
\* the kind, and leaves the entity's instructions and the module's processes
\* as they were.
C7_OutOfScopeIsUnsupportedError ==
    [][(/\ last'.op \in {"codegen_decl", "codegen_stmt"}
        /\ last'.arg.node \in OutOfScopeKinds)
       => (/\ last'.ret = Err(<<"Unsupported", last'.arg.node>>)
           /\ ctx' = ctx
           /\ llmod' = llmod)]_vars

\* C8: a successful process lowering in the entity named C adds exactly one
\* process, named C_<label> or C_proc, at the end of the module's processes,
\* and appends exactly one instance instruction at the end of C's
\* instructions, which refers to that process, has empty port lists and is
\* named after the label if there is one; what was there before is unchanged.
C8_ProcessLowering ==
    [][(/\ last'.op = "codegen_stmt"
        /\ last'.arg.node = "Process"
        /\ last'.ret = Ok(Unit))
       => LET label == last'.arg.hir.label
              n == Len(ctx.insts)
              p == Len(llmod)
          IN  /\ Len(llmod') = p + 1
              /\ SubSeq(llmod', 1, p) = llmod
              /\ llmod'[p + 1].name = (IF label.some THEN ctx.name \o "_" \o label.val
                                       ELSE ctx.name \o "_proc")
              /\ (ctx.name = "top" /\ label = None) => llmod'[p + 1].name = "top_proc"
              /\ (ctx.name = "top" /\ label = Some("p1")) => llmod'[p + 1].name = "top_p1"
              /\ ctx'.name = ctx.name
              /\ Len(ctx'.insts) = n + 1
              /\ SubSeq(ctx'.insts, 1, n) = ctx.insts
              /\ ctx'.insts[n + 1].kind = "InstanceInst"
              /\ ctx'.insts[n + 1].target = p + 1
              /\ ctx'.insts[n + 1].ins = <<>>
              /\ ctx'.insts[n + 1].outs = <<>>
              /\ ctx'.insts[n + 1].name = label]_vars

\* The labeled process p1 has been lowered into the entity top after an
\* earlier instruction: the module's last process is top_p1 and the entity's
\* last instruction is the instance of it.
C8_Witness ==
    /\ last.op = "codegen_stmt"
    /\ last.arg.node = "Process"
    /\ last.arg.hir.label = Some("p1")
    /\ last.ret = Ok(Unit)
    /\ ctx.name = "top"
    /\ Len(ctx.insts) = 2
    /\ ctx.insts[1].kind = "SignalInst"
    /\ ctx.insts[2].kind = "InstanceInst"
    /\ ctx.insts[2].target = Len(llmod)
    /\ llmod[Len(llmod)].name = "top_p1"

\* The value a signal is initialised with: the constant of its initializer
\* when it has one, the default value of its type otherwise.
InitialValue(id) ==
    IF id.hir.init.some THEN const_value(id.hir.init.val)
    ELSE default_value_for_type(ty(id).val)

\* Every query and mapping step of the lowering of the signal id succeeds.
SignalStepsSucceed(id) ==
    /\ existing_hir(id).tag = "Ok"
    /\ ty(id).tag = "Ok"
    /\ InitialValue(id).tag = "Ok"
    /\ map_type(ty(id).val).tag = "Ok"
    /\ map_const(InitialValue(id).val).tag = "Ok"

\* C9: a successful signal lowering appends exactly one signal instruction,
\* named after the declaration, of the mapped type and with the mapped
\* initializer or default value; when a query or a mapping step fails, the
\* error is returned and nothing is appended.
C9_SignalLowering ==
    [][(last'.op = "codegen_decl" /\ last'.arg.node = "Signal")
       => LET id == last'.arg IN
          IF SignalStepsSucceed(id)
          THEN /\ last'.ret = Ok(Unit)
               /\ ctx'.insts = Append(ctx.insts,
                      SignalInst(Some(id.hir.name), map_type(ty(id).val).val,
                                 Some(map_const(InitialValue(id).val).val)))
          ELSE /\ last'.ret.tag = "Err"
               /\ ctx' = ctx]_vars

====
